---- MODULE Spec2Model ----
(***************************************************************************)
(* Keyword search over a directory of text files, as realised twice:      *)
(* ThreadingFileSearcher (threads sharing one mapping under a lock) and    *)
(* MultiprocessingFileSearcher (processes reporting through a queue).      *)
(* The model covers the matcher, the partitioner, the worker loops, the    *)
(* merge, and the driver search_files of each realisation.                 *)
(***************************************************************************)
EXTENDS Integers, Sequences, FiniteSets, TLC

(* ------------------------------ bounds -------------------------------- *)
\* Largest directory listing explored.
MaxFiles == 3
\* Largest thread count and largest process count a searcher is built with.
MaxThreads == 3
MaxProcesses == 2
\* Largest list length and chunk count the partitioner alone is run on.
MaxListLen == 6
MaxChunks == 4
\* Repeated calls: how many calls of search_files follow each other, and the
\* largest listing and worker count they are explored with.
MaxCalls == 2
MaxRerunFiles == 2
MaxRerunWorkers == 2
\* The matcher alone: longest content and longest keyword it is run on.
MaxTextLen == 3
MaxKeywordLen == 2

(* ------------------------------ corpus -------------------------------- *)
\* The directory universe, in listing order; a listing is a prefix of it.
AllFiles == <<"a.txt", "b.txt", "c.txt", "d.txt", "e.txt", "f.txt", "g.txt", "h.txt">>

Content(f) ==
    CASE f = "a.txt" -> <<"p","y","t","h","o","n"," ","p","r","o","g","r","a","m","m","i","n","g">>
      [] f = "b.txt" -> <<"d","a","t","a"," ","s","t","r","u","c","t","u","r","e">>
      [] f = "c.txt" -> <<"P","y","t","h","o","n",",","D","A","T","A">>
      [] f = "d.txt" -> <<"p","y","t","h","o","n","i","c"," ","d","a","t","a","b","a","s","e">>
      [] OTHER       -> <<"n","o"," ","d","a","t","a">>

\* The keyword list handed to search_files, and each keyword's characters.
Keywords == <<"python", "data", "missing">>

KeywordChars(k) ==
    CASE k = "python" -> <<"p","y","t","h","o","n">>
      [] k = "data"   -> <<"d","a","t","a">>
      [] OTHER        -> <<"m","i","s","s","i","n","g">>

(* ------------------------------ matcher ------------------------------- *)
UpperChars == <<"A","B","C","D","E","F","G","H","I","J","K","L","M",
                "N","O","P","Q","R","S","T","U","V","W","X","Y","Z">>
LowerChars == <<"a","b","c","d","e","f","g","h","i","j","k","l","m",
                "n","o","p","q","r","s","t","u","v","w","x","y","z">>
DigitChars == <<"0","1","2","3","4","5","6","7","8","9">>

Range(s) == {s[i] : i \in DOMAIN s}

\* str.lower(), character by character.
LowerChar(c) ==
    IF \E i \in DOMAIN UpperChars : UpperChars[i] = c
    THEN LowerChars[CHOOSE i \in DOMAIN UpperChars : UpperChars[i] = c]
    ELSE c

lowerKeepsCase(s) == s
lower(s) == [i \in DOMAIN s |-> LowerChar(s[i])]

\* \w of the regular expression engine.
IsWordChar(c) == c \in Range(UpperChars) \cup Range(LowerChars) \cup Range(DigitChars) \cup {"_"}

\* \b at offset p of s (between s[p] and s[p+1]): exactly one side is a word character.
WordBoundary(s, p) ==
    LET left  == p >= 1 /\ IsWordChar(s[p])
        right == p < Len(s) /\ IsWordChar(s[p + 1])
    IN  left # right

\* bool(re.search(r'\b' + re.escape(keyword) + r'\b', content))
re_search(keyword, content) ==
    \E i \in 0 .. (Len(content) - Len(keyword)) :
        /\ SubSeq(content, i + 1, i + Len(keyword)) = keyword
        /\ WordBoundary(content, i)
        /\ WordBoundary(content, i + Len(keyword))

\* The result of the except branch: every keyword reported as not found.
NotFoundAllReportsFound ==
    [k \in Range(Keywords) |-> TRUE]
NotFoundAll ==
    [k \in Range(Keywords) |-> FALSE]

\* The search for one keyword in what was read: content is lower-cased,
\* the pattern is built from the lower-cased keyword.
KeywordFound(keyword_chars, content) == re_search(lower(keyword_chars), lower(content))

\* The try branch: content.lower(), then one search per keyword.
FoundInContent(f) ==
    [k \in Range(Keywords) |-> KeywordFound(KeywordChars(k), Content(f))]

(* ----------------------------- partitioner ---------------------------- *)
\* Python's file_list[start:end] (0-based, end exclusive, clamped).
SliceOneBased(file_list, start, end) ==
    LET e == IF end > Len(file_list) THEN Len(file_list) ELSE end
    IN  IF start >= e THEN <<>> ELSE SubSeq(file_list, IF start = 0 THEN 1 ELSE start, e)
Slice(file_list, start, end) ==
    LET e == IF end > Len(file_list) THEN Len(file_list) ELSE end
    IN  IF start >= e THEN <<>> ELSE SubSeq(file_list, start + 1, e)

\* end = start + chunk_size + (1 if i < remainder else 0)
ChunkEndInclusive(start, chunk_size, remainder, i) ==
    start + chunk_size + (IF i <= remainder THEN 1 ELSE 0)
ChunkEnd(start, chunk_size, remainder, i) ==
    start + chunk_size + (IF i < remainder THEN 1 ELSE 0)

\* The body of "for i in range(n)" from iteration i on.
RECURSIVE SplitLoop(_, _, _, _, _, _, _)
SplitLoop(file_list, n, chunk_size, remainder, i, start, chunks) ==
    IF i >= n THEN chunks
    ELSE LET end == ChunkEnd(start, chunk_size, remainder, i)
             chunk == IF start < Len(file_list)
                      THEN Slice(file_list, start, end)
                      ELSE <<>>
         IN  SplitLoop(file_list, n, chunk_size, remainder, i + 1, end,
                       Append(chunks, chunk))

\* len(file_list) // n raises ZeroDivisionError when n is 0.
SplitRaises(n) == n = 0

\* split_files_into_chunks for a non-zero worker count n. For n < 0 the
\* quotient and remainder are computed and range(n) is empty: no chunk.
split_files_into_chunks(file_list, n) ==
    IF n < 0 THEN <<>>
    ELSE SplitLoop(file_list, n, Len(file_list) \div n, Len(file_list) % n, 0, 0, <<>>)

(* ------------------------------- state -------------------------------- *)
VARIABLES
    mode,                \* "thread": ThreadingFileSearcher, "process": MultiprocessingFileSearcher
    num_requested,       \* the constructor's num_threads / num_processes argument
    dir_exists,          \* whether the directory given to search_files exists
    file_paths,          \* the directory listing
    unreadable,          \* the files whose open/read fails
    num_workers,         \* self.num_threads / self.num_processes
    results,             \* self.results (threads only)
    results_lock,        \* self.results_lock: 0 when free, else the holder
    error_count,         \* self.error_count
    processed_files,     \* self.processed_files
    total_files,         \* self.total_files
    pc,                  \* where search_files is
    file_chunks,         \* file_chunks
    spawned,             \* threads / processes: the chunk index of each worker started
    loop_i,              \* the index of the spawn loop, then of the join loop
    workers,             \* each worker's locals and position
    result_queue,        \* result_queue
    final_results,       \* final_results of the process driver
    processes_completed, \* processes_completed
    wait,                \* seconds spent in the current blocking get / join
    elapsed,             \* seconds spent blocked since collection started
    timed_out,           \* whether a get timed out (the loop was left by break)
    received,            \* the result_data messages the driver has got, in order
    returned,            \* the value search_files returned
    raised,              \* the exception search_files raised, "" if none
    calls,               \* how many calls of search_files have been started
    prev,                \* the previous call: its searcher, directory and outcome
    text,                \* the matcher alone: the content read from a file
    keyword,             \* the matcher alone: the keyword looked for
    is_found             \* the matcher alone: found_keywords[keyword]

\* What no step of a call of search_files changes.
matcher == <<text, keyword, is_found>>
inputs == <<mode, num_requested, dir_exists, file_paths, unreadable, num_workers,
            calls, prev, matcher>>
shared == <<results, results_lock, error_count, processed_files, total_files>>
driver == <<pc, file_chunks, spawned, loop_i, returned, raised>>
collect == <<result_queue, final_results, processes_completed, wait, elapsed, timed_out,
             received>>
vars == <<inputs, shared, driver, collect, workers>>

\* The worker counts a searcher of kind m is constructed with.
WorkerCounts(m) == (0 - 1) .. (IF m = "thread" THEN MaxThreads ELSE MaxProcesses)

\* ThreadingFileSearcher.__init__: the count is stored as given.
InitNumThreads(n) == n

\* MultiprocessingFileSearcher.__init__: max(1, num_processes).
InitNumProcesses(n) == IF n > 1 THEN n ELSE 1

EmptyMap == [k \in {} |-> <<>>]

\* A worker's locals at entry: local_results, files_processed, error_count;
\* acquired counts its entries into "with self.results_lock"; hung and
\* failed record that it blocked for good or raised outside the per-file handling.
NewWorker ==
    [pc |-> "unborn", idx |-> 1, local |-> EmptyMap, files_processed |-> 0,
     errors |-> 0, reg |-> 0, hung |-> FALSE, acquired |-> 0, failed |-> FALSE]

\* The keyword -> file-set reading of a keyword -> file-list mapping.
AsSets(map) ==
    [k \in Range(Keywords) |-> IF k \in DOMAIN map THEN Range(map[k]) ELSE {}]

\* The directory a call is given.
Directory == [exists |-> dir_exists, files |-> file_paths, unreadable |-> unreadable]

\* No call precedes the first one.
NoPrev ==
    [outcome |-> "none", mode |-> "none", same_instance |-> FALSE,
     directory |-> [exists |-> FALSE, files |-> <<>>, unreadable |-> {}],
     sets |-> [k \in Range(Keywords) |-> {}]]

\* What a call of search_files starts from: its locals, and what is observed.
CallEntry ==
    /\ pc = "idle"
    /\ file_chunks = <<>>
    /\ spawned = <<>>
    /\ loop_i = 1
    /\ workers = <<>>
    /\ result_queue = <<>>
    /\ final_results = EmptyMap
    /\ processes_completed = 0
    /\ wait = 0
    /\ elapsed = 0
    /\ timed_out = FALSE
    /\ received = <<>>
    /\ returned = EmptyMap
    /\ raised = ""

\* The matcher is not run on its own.
MatcherIdle == text = <<>> /\ keyword = <<>> /\ is_found = FALSE

\* The searcher as constructed, before search_files is called.
Constructed ==
    /\ num_workers = IF mode = "thread" THEN InitNumThreads(num_requested)
                                        ELSE InitNumProcesses(num_requested)
    /\ results = EmptyMap
    /\ results_lock = 0
    /\ error_count = 0
    /\ processed_files = 0
    /\ total_files = 0
    /\ calls = 1
    /\ prev = NoPrev
    /\ CallEntry

Fresh == Constructed /\ MatcherIdle

\* The directories with at most n files: one that does not exist, or a
\* listing with some of its files unreadable.
Directories(n) ==
    {[exists |-> FALSE, files |-> <<>>, unreadable |-> {}]}
    \cup UNION {{[exists |-> TRUE, files |-> SubSeq(AllFiles, 1, k), unreadable |-> u] :
                    u \in SUBSET Range(SubSeq(AllFiles, 1, k))} : k \in 0 .. n}

Init ==
    /\ mode \in {"thread", "process"}
    /\ num_requested \in WorkerCounts(mode)
    /\ \E d \in Directories(MaxFiles) :
          /\ dir_exists = d.exists
          /\ file_paths = d.files
          /\ unreadable = d.unreadable
    /\ Fresh

(* ------------------------------ helpers ------------------------------- *)
\* d.get(k, []) of a mapping from keywords to lists.
Lookup(map, k) == IF k \in DOMAIN map THEN map[k] ELSE <<>>

\* "for keyword, file_list in part.items(): map[keyword].extend(file_list)"
ExtendAllOverwrites(map, part) ==
    [k \in DOMAIN map \cup DOMAIN part |-> IF k \in DOMAIN part THEN part[k] ELSE map[k]]
ExtendAll(map, part) ==
    [k \in DOMAIN map \cup DOMAIN part |-> Lookup(map, k) \o Lookup(part, k)]

\* "for keyword, found in found_keywords.items(): if found: local[keyword].append(f)"
AppendFoundTouchesAll(local, found, f) ==
    LET hit == {k \in DOMAIN found : found[k]}
    IN  [k \in DOMAIN local \cup DOMAIN found |->
            IF k \in hit THEN Append(Lookup(local, k), f) ELSE Lookup(local, k)]
AppendFound(local, found, f) ==
    LET hit == {k \in DOMAIN found : found[k]}
    IN  [k \in DOMAIN local \cup hit |->
            IF k \in hit THEN Append(Lookup(local, k), f) ELSE local[k]]

Chunk(w) == file_chunks[w]
CurrentFile(w) == Chunk(w)[workers[w].idx]
ChunkDone(w) == workers[w].idx > Len(Chunk(w))

(* ------------------------- per-file scanning -------------------------- *)
\* "files_processed += 1" after a file whose read failed: the except branch
\* of search_keywords_in_file returned normally, the file is counted.
CountAfterFailedRead(n) == n + 1

\* What search_keywords_in_file returns for file f: the matches of its
\* content, or "not found" for every keyword when open/read raised.
search_keywords_in_file(f) ==
    IF f \in unreadable THEN NotFoundAll ELSE FoundInContent(f)

(* --------------------- ThreadingFileSearcher: worker ------------------ *)
\* "with self.results_lock:" can be entered.
LockFreeUnguarded == TRUE
LockFree == results_lock = 0

\* Leaving the "with self.results_lock" of the except branch releases it.
LockAfterErrorCountHeld(w) == w
LockAfterErrorCount(w) == 0

\* One loop iteration on a file that is read: search, record, count.
T_ScanFile(w) ==
    /\ mode = "thread"
    /\ workers[w].pc = "scan"
    /\ ~ChunkDone(w)
    /\ CurrentFile(w) \notin unreadable
    /\ workers' = [workers EXCEPT
                     ![w].local = AppendFound(@, search_keywords_in_file(CurrentFile(w)),
                                              CurrentFile(w)),
                     ![w].files_processed = @ + 1,
                     ![w].idx = @ + 1]
    /\ UNCHANGED <<inputs, shared, driver, collect>>

\* open/read raises inside search_keywords_in_file: the except branch is entered.
T_ReadFails(w) ==
    /\ mode = "thread"
    /\ workers[w].pc = "scan"
    /\ ~ChunkDone(w)
    /\ CurrentFile(w) \in unreadable
    /\ workers' = [workers EXCEPT ![w].pc = "err_lock"]
    /\ UNCHANGED <<inputs, shared, driver, collect>>

\* except branch: take the lock and read self.error_count.
T_ErrLock(w) ==
    /\ workers[w].pc = "err_lock"
    /\ LockFree
    /\ results_lock' = w
    /\ workers' = [workers EXCEPT ![w].pc = "err_store", ![w].reg = error_count,
                                   ![w].acquired = @ + 1]
    /\ UNCHANGED <<inputs, results, error_count, processed_files, total_files,
                   driver, collect>>

\* except branch: store self.error_count + 1, release, return "not found";
\* the worker loop then records nothing and counts the file.
T_ErrStore(w) ==
    /\ workers[w].pc = "err_store"
    /\ error_count' = workers[w].reg + 1
    /\ results_lock' = LockAfterErrorCount(w)
    /\ workers' = [workers EXCEPT
                     ![w].pc = "scan",
                     ![w].local = AppendFound(@, search_keywords_in_file(CurrentFile(w)),
                                              CurrentFile(w)),
                     ![w].files_processed = CountAfterFailedRead(@),
                     ![w].idx = @ + 1]
    /\ UNCHANGED <<inputs, results, processed_files, total_files, driver, collect>>

\* A statement of the loop outside the inner try raises (the print of the
\* loop's except branch): worker_thread has no handler around its loop, the
\* exception ends the thread before its merge.
T_Crash(w) ==
    /\ mode = "thread"
    /\ workers[w].pc = "scan"
    /\ ~ChunkDone(w)
    /\ workers' = [workers EXCEPT ![w].pc = "crashed", ![w].failed = TRUE]
    /\ UNCHANGED <<inputs, shared, driver, collect>>

\* After the loop: take the lock for the merge.
T_MergeLock(w) ==
    /\ mode = "thread"
    /\ workers[w].pc = "scan"
    /\ ChunkDone(w)
    /\ LockFree
    /\ results_lock' = w
    /\ workers' = [workers EXCEPT ![w].pc = "merge", ![w].acquired = @ + 1]
    /\ UNCHANGED <<inputs, results, error_count, processed_files, total_files,
                   driver, collect>>

\* Under the lock: extend the shared lists, then read self.processed_files.
T_MergeResults(w) ==
    /\ workers[w].pc = "merge"
    /\ results' = ExtendAll(results, workers[w].local)
    /\ workers' = [workers EXCEPT ![w].pc = "merge_store", ![w].reg = processed_files]
    /\ UNCHANGED <<inputs, results_lock, error_count, processed_files, total_files,
                   driver, collect>>

\* Under the lock: store self.processed_files + files_processed, release.
T_MergeStore(w) ==
    /\ workers[w].pc = "merge_store"
    /\ processed_files' = workers[w].reg + workers[w].files_processed
    /\ results_lock' = 0
    /\ workers' = [workers EXCEPT ![w].pc = "done"]
    /\ UNCHANGED <<inputs, results, error_count, total_files, driver, collect>>

(* --------------------- ThreadingFileSearcher: driver ------------------ *)
\* "if not directory_path.exists()": the directory is not there.
DirectoryMissingIgnored == FALSE
DirectoryMissing == ~dir_exists

\* self.results.clear()
ResetResultsKeeps(r) == r
ResetResults(r) == EmptyMap

\* "if chunk:" a worker is created for a chunk that is not empty.
ShouldSpawnAlways(chunk) == TRUE
ShouldSpawn(chunk) == chunk # <<>>

\* thread.join() returns: the thread has run to its end.
ThreadFinishedUnchecked(w) == TRUE
ThreadFinished(w) == workers[w].pc \in {"done", "crashed"}

\* search_files up to the split: fail when the directory does not exist,
\* list it, return {} when the listing is empty, else reset the shared state
\* and split (which may raise).
DT_Begin ==
    /\ mode = "thread"
    /\ pc = "idle"
    /\ IF DirectoryMissing
       THEN /\ pc' = "raised"
            /\ raised' = "FileNotFoundError"
            /\ UNCHANGED <<shared, file_chunks, spawned, loop_i, returned, workers>>
       ELSE IF file_paths = <<>>
       THEN /\ returned' = EmptyMap
            /\ pc' = "done"
            /\ UNCHANGED <<shared, file_chunks, spawned, loop_i, raised, workers>>
       ELSE /\ total_files' = Len(file_paths)
            /\ results' = ResetResults(results)
            /\ error_count' = 0
            /\ processed_files' = 0
            /\ IF SplitRaises(num_workers)
               THEN /\ pc' = "raised"
                    /\ raised' = "ZeroDivisionError"
                    /\ UNCHANGED <<file_chunks, workers>>
               ELSE /\ pc' = "spawn"
                    /\ file_chunks' = split_files_into_chunks(file_paths, num_workers)
                    /\ workers' = [i \in 1 .. Len(file_chunks') |-> NewWorker]
                    /\ UNCHANGED raised
            /\ UNCHANGED <<results_lock, spawned, loop_i, returned>>
    /\ UNCHANGED <<inputs, collect>>

\* One iteration of the spawn loop: a thread is created and started for a
\* non-empty chunk only; after the last chunk the driver goes on to join.
DT_Spawn ==
    /\ mode = "thread"
    /\ pc = "spawn"
    /\ IF loop_i > Len(file_chunks)
       THEN /\ pc' = "join"
            /\ loop_i' = 1
            /\ UNCHANGED <<spawned, workers>>
       ELSE /\ loop_i' = loop_i + 1
            /\ pc' = pc
            /\ IF ShouldSpawn(file_chunks[loop_i])
               THEN /\ spawned' = Append(spawned, loop_i)
                    /\ workers' = [workers EXCEPT ![loop_i].pc = "scan"]
               ELSE UNCHANGED <<spawned, workers>>
    /\ UNCHANGED <<inputs, shared, file_chunks, returned, raised, collect>>

\* thread.join(): returns once that thread has finished.
DT_Join ==
    /\ mode = "thread"
    /\ pc = "join"
    /\ loop_i <= Len(spawned)
    /\ ThreadFinished(spawned[loop_i])
    /\ loop_i' = loop_i + 1
    /\ UNCHANGED <<inputs, shared, pc, file_chunks, spawned, returned, raised,
                   collect, workers>>

\* final_results = dict(self.results); return final_results
DT_Return ==
    /\ mode = "thread"
    /\ pc = "join"
    /\ loop_i > Len(spawned)
    /\ returned' = results
    /\ pc' = "done"
    /\ UNCHANGED <<inputs, shared, file_chunks, spawned, loop_i, raised, collect, workers>>

(* ------------------ MultiprocessingFileSearcher: worker --------------- *)
\* result_queue.get(timeout=30) and process.join(timeout=10), in seconds.
GetTimeout == 30
JoinTimeoutAsGet == GetTimeout
JoinTimeout == 10
\* Time advances in steps of the shorter of the two waits.
TickSec == JoinTimeout

\* A worker process that has neither finished nor been terminated.
Alive(w) == workers[w].pc \in {"scan", "put", "handled", "hung"}

\* worker_process's "for filepath in file_chunk" from position idx on:
\* search_keywords_in_file absorbs a failed read, so every file is recorded
\* under the keywords found in it and counted; error_count is not touched.
RECURSIVE ScanChunk(_, _)
ScanChunk(chunk, st) ==
    IF st.idx > Len(chunk) THEN st
    ELSE ScanChunk(chunk,
                   [st EXCEPT !.local = AppendFound(@, search_keywords_in_file(chunk[st.idx]),
                                                    chunk[st.idx]),
                              !.files_processed = IF chunk[st.idx] \in unreadable
                                                  THEN CountAfterFailedRead(@)
                                                  ELSE @ + 1,
                              !.idx = @ + 1])

\* result_data as worker_process builds it after its loop.
ResultData(w, st) ==
    [process_id |-> w, results |-> st.local,
     files_processed |-> st.files_processed, errors |-> st.errors]

\* The process scans its chunk in its own memory and puts its result:
\* result_queue.put(result_data).
P_Put(w) ==
    /\ mode = "process"
    /\ workers[w].pc = "scan"
    /\ LET st == ScanChunk(Chunk(w), workers[w])
       IN  /\ result_queue' = Append(result_queue, ResultData(w, st))
           /\ workers' = [workers EXCEPT ![w] = [st EXCEPT !.pc = "put"]]
    /\ UNCHANGED <<inputs, shared, driver, final_results, processes_completed,
                   wait, elapsed, timed_out, received>>

\* The message the "except Exception" of worker_process puts.
CriticalError(w) ==
    [process_id |-> w, results |-> EmptyMap, files_processed |-> 0, errors |-> 1,
     critical_error |-> TRUE]

\* A statement of the try block ahead of the put raises (the print of the
\* start message, or the print inside the per-file except branch): the
\* handler puts its message instead of result_data.
P_FailBeforePut(w) ==
    /\ mode = "process"
    /\ workers[w].pc = "scan"
    /\ result_queue' = Append(result_queue, CriticalError(w))
    /\ workers' = [workers EXCEPT ![w].pc = "handled", ![w].failed = TRUE]
    /\ UNCHANGED <<inputs, shared, driver, final_results, processes_completed,
                   wait, elapsed, timed_out, received>>

\* The print that follows result_queue.put(result_data) inside the same try
\* block raises: the handler puts its message as well.
P_FailAfterPut(w) ==
    /\ mode = "process"
    /\ workers[w].pc = "put"
    /\ result_queue' = Append(result_queue, CriticalError(w))
    /\ workers' = [workers EXCEPT ![w].pc = "handled", ![w].failed = TRUE]
    /\ UNCHANGED <<inputs, shared, driver, final_results, processes_completed,
                   wait, elapsed, timed_out, received>>

\* The process ends after its put, or after its handler's put.
P_Exit(w) ==
    /\ workers[w].pc \in {"put", "handled"}
    /\ workers' = [workers EXCEPT ![w].pc = "exited"]
    /\ UNCHANGED <<inputs, shared, driver, collect>>

\* The process blocks for good before reaching its put (a hung worker).
P_Hang(w) ==
    /\ mode = "process"
    /\ workers[w].pc = "scan"
    /\ workers' = [workers EXCEPT ![w].pc = "hung", ![w].hung = TRUE]
    /\ UNCHANGED <<inputs, shared, driver, collect>>

(* ------------------ MultiprocessingFileSearcher: driver --------------- *)
\* search_files up to the split: fail when the directory does not exist,
\* list it, return {} when the listing is empty, else reset the counters
\* and split.
DP_Begin ==
    /\ mode = "process"
    /\ pc = "idle"
    /\ IF DirectoryMissing
       THEN /\ pc' = "raised"
            /\ raised' = "FileNotFoundError"
            /\ UNCHANGED <<shared, file_chunks, spawned, loop_i, returned, workers>>
       ELSE IF file_paths = <<>>
       THEN /\ returned' = EmptyMap
            /\ pc' = "done"
            /\ UNCHANGED <<shared, file_chunks, spawned, loop_i, raised, workers>>
       ELSE /\ total_files' = Len(file_paths)
            /\ processed_files' = 0
            /\ error_count' = 0
            /\ IF SplitRaises(num_workers)
               THEN /\ pc' = "raised"
                    /\ raised' = "ZeroDivisionError"
                    /\ UNCHANGED <<file_chunks, workers>>
               ELSE /\ pc' = "spawn"
                    /\ file_chunks' = split_files_into_chunks(file_paths, num_workers)
                    /\ workers' = [i \in 1 .. Len(file_chunks') |-> NewWorker]
                    /\ UNCHANGED raised
            /\ UNCHANGED <<results, results_lock, spawned, loop_i, returned>>
    /\ UNCHANGED <<inputs, collect>>

\* One iteration of the spawn loop: a process is created and started for a
\* non-empty chunk only; after the last chunk the collection starts with
\* final_results empty and processes_completed = 0.
DP_Spawn ==
    /\ mode = "process"
    /\ pc = "spawn"
    /\ IF loop_i > Len(file_chunks)
       THEN /\ pc' = "collect"
            /\ loop_i' = 1
            /\ final_results' = EmptyMap
            /\ processes_completed' = 0
            /\ UNCHANGED <<spawned, workers>>
       ELSE /\ loop_i' = loop_i + 1
            /\ pc' = pc
            /\ IF ShouldSpawn(file_chunks[loop_i])
               THEN /\ spawned' = Append(spawned, loop_i)
                    /\ workers' = [workers EXCEPT ![loop_i].pc = "scan"]
               ELSE UNCHANGED <<spawned, workers>>
            /\ UNCHANGED <<final_results, processes_completed>>
    /\ UNCHANGED <<inputs, shared, file_chunks, returned, raised, result_queue,
                   wait, elapsed, timed_out, received>>

\* The driver is inside "while processes_completed < len(processes)".
CollectingStopsEarly == pc = "collect" /\ processes_completed + 1 < Len(spawned)
Collecting == pc = "collect" /\ processes_completed < Len(spawned)

\* "self.processed_files += result_data['files_processed']"
AddProcessedOverwrites(total, n) == n
AddProcessed(total, n) == total + n

\* result_queue.get returned a message: merge it and count it.
DP_Get ==
    /\ Collecting
    /\ result_queue # <<>>
    /\ LET result_data == Head(result_queue)
       IN  /\ final_results' = ExtendAll(final_results, result_data.results)
           /\ processed_files' = AddProcessed(processed_files, result_data.files_processed)
           /\ error_count' = error_count + result_data.errors
    /\ processes_completed' = processes_completed + 1
    /\ received' = Append(received, Head(result_queue))
    /\ result_queue' = Tail(result_queue)
    /\ wait' = 0
    /\ UNCHANGED <<inputs, results, results_lock, total_files, driver, elapsed,
                   timed_out, workers>>

\* The get has waited its full timeout on an empty queue.
GetNeverTimesOut == FALSE
GetTimedOut == result_queue = <<>> /\ wait >= GetTimeout

\* Where the driver goes on after the caught queue.Empty: "break" leaves
\* the loop for the joins.
PcAfterGetTimeoutRetry == "collect"
PcAfterGetTimeout == "join"

\* queue.Empty is caught by "except Exception" and the loop is left.
DP_GetTimeout ==
    /\ Collecting
    /\ GetTimedOut
    /\ timed_out' = TRUE
    /\ pc' = PcAfterGetTimeout
    /\ loop_i' = 1
    /\ wait' = 0
    /\ UNCHANGED <<inputs, shared, file_chunks, spawned, returned, raised,
                   result_queue, final_results, processes_completed, elapsed,
                   received, workers>>

\* The while condition fails: every spawned process has reported.
DP_CollectDone ==
    /\ pc = "collect"
    /\ ~Collecting
    /\ pc' = "join"
    /\ loop_i' = 1
    /\ wait' = 0
    /\ UNCHANGED <<inputs, shared, file_chunks, spawned, returned, raised,
                   result_queue, final_results, processes_completed, elapsed,
                   timed_out, received, workers>>

\* The driver is inside "for process in processes" at process loop_i.
Joining == mode = "process" /\ pc = "join" /\ loop_i <= Len(spawned)

\* process.join(timeout=10) returns at once: the process has ended.
DP_Join ==
    /\ Joining
    /\ ~Alive(spawned[loop_i])
    /\ loop_i' = loop_i + 1
    /\ wait' = 0
    /\ UNCHANGED <<inputs, shared, pc, file_chunks, spawned, returned, raised,
                   result_queue, final_results, processes_completed, elapsed,
                   timed_out, received, workers>>

\* What becomes of a process still alive after the bounded join:
\* process.terminate(); process.join().
AfterJoinTimeoutNoTerminate(st) == st
AfterJoinTimeout(st) == "terminated"

\* The bounded join expired with the process alive.
DP_Terminate ==
    /\ Joining
    /\ Alive(spawned[loop_i])
    /\ wait >= JoinTimeout
    /\ workers' = [workers EXCEPT
                     ![spawned[loop_i]].pc = AfterJoinTimeout(workers[spawned[loop_i]].pc)]
    /\ loop_i' = loop_i + 1
    /\ wait' = 0
    /\ UNCHANGED <<inputs, shared, pc, file_chunks, spawned, returned, raised,
                   result_queue, final_results, processes_completed, elapsed,
                   timed_out, received>>

\* results = dict(final_results); return results
DP_Return ==
    /\ mode = "process"
    /\ pc = "join"
    /\ loop_i > Len(spawned)
    /\ returned' = final_results
    /\ pc' = "done"
    /\ UNCHANGED <<inputs, shared, file_chunks, spawned, loop_i, raised, collect, workers>>

\* Time passes while the driver is blocked in a get on an empty queue or
\* in a bounded join on a live process.
Tick ==
    /\ \/ Collecting /\ result_queue = <<>> /\ wait < GetTimeout
       \/ Joining /\ Alive(spawned[loop_i]) /\ wait < JoinTimeout
    /\ wait' = wait + TickSec
    /\ elapsed' = elapsed + TickSec
    /\ UNCHANGED <<inputs, shared, driver, result_queue, final_results,
                   processes_completed, timed_out, received, workers>>

(* --------------------------- specifications --------------------------- *)
ThreadDriver == DT_Begin \/ DT_Spawn \/ DT_Join \/ DT_Return

ProcessDriver ==
    \/ DP_Begin \/ DP_Spawn \/ DP_Get \/ DP_GetTimeout \/ DP_CollectDone
    \/ DP_Join \/ DP_Terminate \/ DP_Return

Next ==
    \/ DT_Begin \/ DT_Spawn \/ DT_Join \/ DT_Return
    \/ DP_Begin \/ DP_Spawn \/ DP_Get \/ DP_GetTimeout \/ DP_CollectDone
    \/ DP_Join \/ DP_Terminate \/ DP_Return
    \/ Tick
    \/ \E w \in DOMAIN workers : T_ScanFile(w)
    \/ \E w \in DOMAIN workers : T_ReadFails(w)
    \/ \E w \in DOMAIN workers : T_ErrLock(w)
    \/ \E w \in DOMAIN workers : T_ErrStore(w)
    \/ \E w \in DOMAIN workers : T_MergeLock(w)
    \/ \E w \in DOMAIN workers : T_MergeResults(w)
    \/ \E w \in DOMAIN workers : T_MergeStore(w)
    \/ \E w \in DOMAIN workers : P_Put(w)
    \/ \E w \in DOMAIN workers : P_Exit(w)
    \/ \E w \in DOMAIN workers : P_Hang(w)

Spec == Init /\ [][Next]_vars

\* The driver runs whenever it can, and time does not stop; a worker may
\* be arbitrarily slow or hang.
FairSpec == Spec /\ WF_vars(ThreadDriver \/ ProcessDriver) /\ WF_vars(Tick)

(* ----------------------- failures inside a worker -------------------- *)
\* The searchers when a statement of a worker outside the per-file handling
\* may raise.
NextFaults ==
    \/ Next
    \/ \E w \in DOMAIN workers : T_Crash(w)
    \/ \E w \in DOMAIN workers : P_FailBeforePut(w)
    \/ \E w \in DOMAIN workers : P_FailAfterPut(w)

SpecFaults == Init /\ [][NextFaults]_vars

(* --------------------------- repeated calls --------------------------- *)
\* After search_files has returned or raised, it is called again on the
\* directory d: on the same searcher (same = TRUE), which keeps its
\* attributes, or on a newly constructed searcher of kind m with the same
\* worker count argument.
SearchAgain(m, same, d) ==
    /\ pc \in {"done", "raised"}
    /\ calls < MaxCalls
    /\ same => m = mode
    /\ calls' = calls + 1
    /\ prev' = [outcome |-> pc, mode |-> mode, same_instance |-> same,
                directory |-> Directory, sets |-> AsSets(returned)]
    /\ mode' = m
    /\ num_workers' = IF m = "thread" THEN InitNumThreads(num_requested)
                                      ELSE InitNumProcesses(num_requested)
    /\ dir_exists' = d.exists
    /\ file_paths' = d.files
    /\ unreadable' = d.unreadable
    /\ IF same
       THEN UNCHANGED shared
       ELSE /\ results' = EmptyMap
            /\ results_lock' = 0
            /\ error_count' = 0
            /\ processed_files' = 0
            /\ total_files' = 0
    /\ pc' = "idle"
    /\ file_chunks' = <<>>
    /\ spawned' = <<>>
    /\ loop_i' = 1
    /\ workers' = <<>>
    /\ result_queue' = <<>>
    /\ final_results' = EmptyMap
    /\ processes_completed' = 0
    /\ wait' = 0
    /\ elapsed' = 0
    /\ timed_out' = FALSE
    /\ received' = <<>>
    /\ returned' = EmptyMap
    /\ raised' = ""
    /\ UNCHANGED <<num_requested, matcher>>

InitRerun ==
    /\ mode \in {"thread", "process"}
    /\ num_requested \in (0 - 1) .. MaxRerunWorkers
    /\ \E d \in Directories(MaxRerunFiles) :
          /\ dir_exists = d.exists
          /\ file_paths = d.files
          /\ unreadable = d.unreadable
    /\ Fresh

\* Calls following each other while every worker delivers in time: no
\* worker hangs and no wait expires.
NextRerun ==
    \/ DT_Begin \/ DT_Spawn \/ DT_Join \/ DT_Return
    \/ DP_Begin \/ DP_Spawn \/ DP_Get \/ DP_CollectDone \/ DP_Join \/ DP_Return
    \/ \E w \in DOMAIN workers : T_ScanFile(w)
    \/ \E w \in DOMAIN workers : T_ReadFails(w)
    \/ \E w \in DOMAIN workers : T_ErrLock(w)
    \/ \E w \in DOMAIN workers : T_ErrStore(w)
    \/ \E w \in DOMAIN workers : T_MergeLock(w)
    \/ \E w \in DOMAIN workers : T_MergeResults(w)
    \/ \E w \in DOMAIN workers : T_MergeStore(w)
    \/ \E w \in DOMAIN workers : P_Put(w)
    \/ \E w \in DOMAIN workers : P_Exit(w)
    \/ \E m \in {"thread", "process"}, same \in BOOLEAN, d \in Directories(MaxRerunFiles) :
          SearchAgain(m, same, d)

SpecRerun == InitRerun /\ [][NextRerun]_vars

(* ------------------------ the partitioner alone ----------------------- *)
InitPartition ==
    /\ mode \in {"thread", "process"}
    /\ num_requested \in 1 .. MaxChunks
    /\ dir_exists = TRUE
    /\ \E n \in 0 .. MaxListLen : file_paths = SubSeq(AllFiles, 1, n)
    /\ unreadable = {}
    /\ Fresh

\* file_chunks = self.split_files_into_chunks(file_paths)
Partition ==
    /\ pc = "idle"
    /\ file_chunks' = split_files_into_chunks(file_paths, num_workers)
    /\ pc' = "split"
    /\ UNCHANGED <<inputs, shared, spawned, loop_i, returned, raised, collect, workers>>

SpecPartition == InitPartition /\ [][Partition]_vars

(* -------------------------- the matcher alone ------------------------- *)
\* The characters contents and keywords are made of: a letter in both
\* cases, another letter, a non-word character that needs escaping, a space.
MatcherAlphabet == {"a", "A", "b", "+", " "}

\* The strings over the alphabet of length lo to hi.
Strings(lo, hi) == UNION {[1 .. n -> MatcherAlphabet] : n \in lo .. hi}

InitMatcher ==
    /\ mode \in {"thread", "process"}
    /\ num_requested = 1
    /\ dir_exists = TRUE
    /\ file_paths = <<>>
    /\ unreadable = {}
    /\ Constructed
    /\ text \in Strings(0, MaxTextLen)
    /\ keyword \in Strings(1, MaxKeywordLen)
    /\ is_found = FALSE

\* found_keywords[keyword] = bool(re.search(pattern, content))
Match ==
    /\ pc = "idle"
    /\ is_found' = KeywordFound(keyword, text)
    /\ pc' = "matched"
    /\ UNCHANGED <<mode, num_requested, dir_exists, file_paths, unreadable, num_workers,
                   calls, prev, text, keyword, shared, file_chunks, spawned, loop_i,
                   returned, raised, collect, workers>>

SpecMatcher == InitMatcher /\ [][Match]_vars

(* ---------------------- vocabulary of the properties ------------------ *)
RECURSIVE Flatten(_)
Flatten(seqs) == IF seqs = <<>> THEN <<>> ELSE Head(seqs) \o Flatten(Tail(seqs))

\* How many times x occurs in the list s.
Count(s, x) == Cardinality({i \in DOMAIN s : s[i] = x})

RECURSIVE SumOf(_, _)
SumOf(F(_), s) == IF s = <<>> THEN 0 ELSE F(Head(s)) + SumOf(F, Tail(s))

FilesProcessedBy(w) == workers[w].files_processed
LocalCount(k, f, w) == Count(Lookup(workers[w].local, k), f)

\* The files of the chunks of the workers in the list ws.
FilesOf(ws) == UNION {Range(file_chunks[ws[i]]) : i \in DOMAIN ws}

\* The workers whose partial result has reached the aggregate.
Reported ==
    IF mode = "thread" THEN spawned ELSE [i \in DOMAIN received |-> received[i].process_id]

\* Some spawned process hung before its put.
SomeHung == \E w \in DOMAIN workers : workers[w].hung

(* ------------------------------- C1 ----------------------------------- *)
\* C1: for every file list and every worker count W > 0, in both searchers,
\* split_files_into_chunks returns exactly W chunks, pairwise disjoint, whose
\* concatenation in chunk order is the original list, with sizes that differ
\* by at most 1.
C1_PartitionExact ==
    pc = "split" =>
        /\ Len(file_chunks) = num_workers
        /\ Flatten(file_chunks) = file_paths
        /\ \A i, j \in DOMAIN file_chunks :
              i # j => Range(file_chunks[i]) \cap Range(file_chunks[j]) = {}
        /\ \A i, j \in DOMAIN file_chunks :
              Len(file_chunks[i]) - Len(file_chunks[j]) <= 1

\* An uneven split with more files than workers has been computed.
C1_Witness ==
    /\ pc = "split"
    /\ Len(file_paths) > num_workers
    /\ Len(file_paths) % num_workers # 0
    /\ \E i, j \in DOMAIN file_chunks : Len(file_chunks[i]) # Len(file_chunks[j])

(* ------------------------------- C2 ----------------------------------- *)
\* C2: when the threaded search_files has returned, processed_files is the
\* sum of the spawned threads' files_processed, and every keyword's shared
\* list holds each entry of the threads' local lists exactly once (and
\* nothing else), whatever the interleaving of the threads.
C2_NoLostUpdate ==
    (mode = "thread" /\ pc = "done") =>
        /\ processed_files = SumOf(FilesProcessedBy, spawned)
        /\ returned = results
        /\ \A k \in Range(Keywords) : \A f \in Range(file_paths) :
              Count(Lookup(results, k), f) = SumOf(LAMBDA w : LocalCount(k, f, w), spawned)
        /\ \A k \in DOMAIN results : k \in Range(Keywords)

\* Three threads have each merged a file and the run has returned.
C2_Witness ==
    /\ mode = "thread"
    /\ pc = "done"
    /\ Len(spawned) = 3
    /\ processed_files = 3
    /\ Len(Lookup(results, "data")) >= 2

(* ------------------------------- C3 ----------------------------------- *)
\* C3: in the process searcher, once a worker has hung (it will never put
\* its result), search_files still eventually returns.
C3_HungRunReturns == (mode = "process" /\ SomeHung) ~> (pc = "done")

\* The run has returned although a worker hung and never reported.
C3_Witness ==
    /\ mode = "process"
    /\ pc = "done"
    /\ SomeHung
    /\ processes_completed < Len(spawned)

(* ------------------------------- C4 ----------------------------------- *)
\* C4 as stated: with at least one hung worker, the process driver spends at
\* most 30 + 10 seconds blocked between starting to collect and returning.
C4_Within40 ==
    (mode = "process" /\ pc = "done" /\ SomeHung) => elapsed <= 30 + 10

\* C4 amended: the bounds hold per receive and per join, so the driver is
\* blocked for at most 30 seconds for each spawned worker while collecting
\* and 10 seconds for each while joining: (30 + 10) * k for k spawned workers.
C4_WithinPerWorkerBounds ==
    mode = "process" => elapsed <= (30 + 10) * Len(spawned)

\* Two workers, one hung, and the driver has returned after more than 40 s.
C4_Witness ==
    /\ mode = "process"
    /\ pc = "done"
    /\ SomeHung
    /\ Len(spawned) = 2
    /\ elapsed > 30 + 10

(* ------------------------------- C5 ----------------------------------- *)
\* C5: when the process searcher's search_files has returned, the join loop
\* has gone over every spawned process and none of them is alive, whether
\* collection ended with every result received or with a timeout.
C5_NoWorkerOutlivesDriver ==
    (mode = "process" /\ pc = "done") =>
        /\ loop_i > Len(spawned)
        /\ \A i \in DOMAIN spawned : ~Alive(spawned[i])

\* A hung worker was force-terminated after a receive timeout.
C5_Witness ==
    /\ mode = "process"
    /\ pc = "done"
    /\ timed_out
    /\ \E i \in DOMAIN spawned :
          workers[spawned[i]].hung /\ workers[spawned[i]].pc = "terminated"

(* ------------------------------- C6 ----------------------------------- *)
RECURSIVE Aggregate(_)
Aggregate(msgs) ==
    IF msgs = <<>> THEN EmptyMap
    ELSE ExtendAll(Aggregate(SubSeq(msgs, 1, Len(msgs) - 1)), msgs[Len(msgs)].results)

MsgFilesProcessed(m) == m.files_processed

\* C6: after a receive timeout the driver receives nothing more and raises
\* nothing, and what search_files returns is the aggregate of exactly the
\* messages received before the timeout.
C6_TimeoutGivesPartialAggregate ==
    /\ [](timed_out => raised = "" /\ pc # "raised")
    /\ []((timed_out /\ pc = "done") =>
            /\ returned = Aggregate(received)
            /\ processed_files = SumOf(MsgFilesProcessed, received))
    /\ [][timed_out => received' = received /\ final_results' = final_results]_vars

\* A run of two workers returned one worker's results after a timeout.
C6_Witness ==
    /\ timed_out
    /\ pc = "done"
    /\ Len(spawned) = 2
    /\ Len(received) = 1
    /\ returned # EmptyMap

(* ------------------------------- C7 ----------------------------------- *)
\* C7: in both searchers, after a run with a valid worker count and no
\* timeout, error_count is the number of files whose open/read failed.
C7_ErrorCountIsUnreadableCount ==
    (pc = "done" /\ num_requested >= 1 /\ ~timed_out) =>
        error_count = Cardinality(unreadable)

(* ------------------------------- C8 ----------------------------------- *)
\* C8: in both searchers a file whose open/read fails is in no keyword's
\* list, and every other file handled by a worker whose result reached the
\* aggregate is listed under exactly the keywords its own content matches,
\* as it would be with the failing file absent.
C8_UnreadableContributesNothing ==
    pc = "done" =>
        \A k \in Range(Keywords) :
            Range(Lookup(returned, k)) =
                {f \in FilesOf(Reported) \ unreadable : FoundInContent(f)[k]}

\* A worker went on past an unreadable first file: a later file of the same
\* chunk is in the result.
C8_Witness ==
    /\ pc = "done"
    /\ "a.txt" \in unreadable
    /\ Len(file_chunks) >= 1
    /\ Len(file_chunks[1]) >= 2
    /\ \E i \in DOMAIN Lookup(returned, "data") : returned["data"][i] = "b.txt"

(* ------------------------------- C9 ----------------------------------- *)
\* C9: with a.txt ("python programming"), b.txt ("data structure"), c.txt
\* unreadable, keywords python, data, missing and 2 workers, both searchers
\* return python -> {a.txt}, data -> {b.txt}, missing -> {} (the key
\* present), with error count 1 and processed count 2.
C9_Scenario ==
    ( /\ file_paths = <<"a.txt", "b.txt", "c.txt">>
      /\ unreadable = {"c.txt"}
      /\ num_requested = 2
      /\ pc = "done"
      /\ ~timed_out ) =>
        /\ DOMAIN returned = {"python", "data", "missing"}
        /\ Range(returned["python"]) = {"a.txt"}
        /\ Range(returned["data"]) = {"b.txt"}
        /\ Range(returned["missing"]) = {}
        /\ error_count = 1
        /\ processed_files = 2

(* ------------------------------- C10 ---------------------------------- *)
\* C10: a searcher built with a worker count of 0 never creates a worker and
\* never returns a result from search_files: the call fails instead.
C10_ZeroWorkersRejected ==
    num_requested = 0 => (spawned = <<>> /\ pc # "done")

(* ------------------------------- C11 ---------------------------------- *)
\* C11: a searcher built with a negative worker count never returns a result
\* from search_files (and so never returns with discovered files unscanned):
\* the call fails at entry instead, in both searchers.
C11_NegativeWorkersRejected ==
    num_requested < 0 => pc # "done"

(* ------------------------------- C12 ---------------------------------- *)
\* C12: when the directory does not exist, search_files, in both searchers
\* and whatever calls came before, only raises FileNotFoundError: it creates
\* no worker, returns nothing, and the step that raises leaves the result
\* mapping, the lock and the counters as they were.
C12_MissingDirectoryRaisesAtEntry ==
    /\ [](~dir_exists =>
            /\ pc \in {"idle", "raised"}
            /\ spawned = <<>> /\ workers = <<>>
            /\ pc = "raised" => raised = "FileNotFoundError")
    /\ [][(~dir_exists /\ pc = "idle" /\ pc' # "idle") =>
            UNCHANGED <<shared, spawned, workers, returned>>]_vars

\* A searcher that has processed files and counted an error in an earlier
\* call is called on a missing directory and has raised, its counters kept.
C12_Witness ==
    /\ ~dir_exists
    /\ pc = "raised"
    /\ raised = "FileNotFoundError"
    /\ prev.same_instance
    /\ processed_files > 0
    /\ error_count > 0

(* ------------------------------- C13 ---------------------------------- *)
\* C13: for an existing directory with no matching file, search_files returns
\* an empty mapping, spawns no worker, and processed_files and error_count
\* are zero, whatever calls were made on the searcher before.
C13_EmptyDirectoryZeroCounters ==
    (pc = "done" /\ dir_exists /\ file_paths = <<>>) =>
        /\ returned = EmptyMap
        /\ spawned = <<>>
        /\ processed_files = 0
        /\ error_count = 0

(* ------------------------------- C14 ---------------------------------- *)
\* C14: when a call on one kind of searcher has returned and a call on the
\* other kind, built with the same worker count and given the same directory,
\* returns too (no worker hanging, no wait expiring), both return the same
\* keyword -> file-set mapping.
C14_SameMappingInBothModels ==
    ( /\ pc = "done"
      /\ prev.outcome = "done"
      /\ prev.mode # mode
      /\ prev.directory = Directory ) =>
        AsSets(returned) = prev.sets

(* ------------------------------- C15 ---------------------------------- *)
\* C15: when search_files is called again on an unchanged directory, on the
\* same searcher or on a new one of the same kind and worker count, it
\* returns the same keyword -> file-set mapping as the call before, and no
\* file occurs twice in a keyword's list.
C15_RerunIdempotent ==
    ( /\ pc = "done"
      /\ prev.outcome = "done"
      /\ prev.mode = mode
      /\ prev.directory = Directory ) =>
        /\ AsSets(returned) = prev.sets
        /\ \A k \in DOMAIN returned : \A f \in Range(file_paths) :
              Count(returned[k], f) <= 1

\* The same thread searcher has searched the same directory twice and has
\* returned matches both times.
C15_Witness ==
    /\ mode = "thread"
    /\ pc = "done"
    /\ prev.outcome = "done"
    /\ prev.same_instance
    /\ prev.directory = Directory
    /\ Len(Lookup(returned, "python")) >= 1
    /\ Len(Lookup(returned, "data")) >= 1

(* ------------------------------- C16 ---------------------------------- *)
Min(a, b) == IF a < b THEN a ELSE b

\* How many spawned workers have the file f in their chunk.
Owners(f) == Cardinality({i \in DOMAIN spawned : f \in Range(file_chunks[spawned[i]])})

NoDuplicates(map) ==
    \A k \in DOMAIN map : \A f \in Range(file_paths) : Count(map[k], f) <= 1

\* C16: with W > 0 configured workers and N files, in both searchers, once
\* the spawn loop is over exactly min(N, W) workers have been created, each
\* for a non-empty chunk, every file is in the chunk of exactly one of them,
\* and no file occurs twice in a keyword's list of the shared mapping, of
\* the aggregate or of the returned mapping.
C16_OneWorkerPerNonEmptyChunk ==
    (num_requested > 0 /\ pc \in {"join", "collect", "done"}) =>
        /\ Len(spawned) = Min(Len(file_paths), num_requested)
        /\ \A i \in DOMAIN spawned : file_chunks[spawned[i]] # <<>>
        /\ \A f \in Range(file_paths) : Owners(f) = 1
        /\ NoDuplicates(results)
        /\ NoDuplicates(final_results)
        /\ NoDuplicates(returned)

\* More workers were configured than there are files, and the run returned
\* matches after spawning one worker per file.
C16_Witness ==
    /\ pc = "done"
    /\ Len(file_paths) >= 1
    /\ num_requested > Len(file_paths)
    /\ Len(spawned) = Len(file_paths)
    /\ Len(file_chunks) > Len(spawned)
    /\ returned # EmptyMap

(* ------------------------------- C19 ---------------------------------- *)
\* The unreadable files among the first n files of the chunk of worker w.
UnreadableUpTo(w, n) ==
    Cardinality({i \in 1 .. n : i <= Len(Chunk(w)) /\ Chunk(w)[i] \in unreadable})

C20_ReturnsAfterAllThreads ==
    (mode = "thread" /\ ((pc = "join" /\ loop_i > Len(spawned)) \/ pc = "done")) =>
        /\ \A i \in DOMAIN spawned : workers[spawned[i]].pc = "done"
        /\ results_lock = 0
        /\ \A k \in Range(Keywords) : \A f \in Range(file_paths) :
              Count(Lookup(results, k), f) = SumOf(LAMBDA w : LocalCount(k, f, w), spawned)

\* The joins of three threads are over and the driver is about to read the
\* shared mapping, which holds matches.
C20_Witness ==
    /\ mode = "thread"
    /\ pc = "join"
    /\ loop_i > Len(spawned)
    /\ Len(spawned) = 3
    /\ results # EmptyMap

(* ------------------------------- C17 ---------------------------------- *)
\* The workers the received messages came from, in order of receipt.
Senders == [i \in DOMAIN received |-> received[i].process_id]

\* C17: in the process searcher the aggregate and the processed count are
\* those of the received messages, each merged once; no two received
\* messages come from the same spawned worker; and when the collection ended
\* without a timeout, one message of every spawned worker has been merged.
C17_OneMergePerWorker ==
    mode = "process" =>
        /\ final_results = Aggregate(received)
        /\ processed_files = SumOf(MsgFilesProcessed, received)
        /\ processes_completed = Len(received)
        /\ Range(Senders) \subseteq Range(spawned)
        /\ \A i, j \in DOMAIN received : i # j => Senders[i] # Senders[j]
        /\ (pc \in {"join", "done"} /\ ~timed_out) => Range(Senders) = Range(spawned)

(* ------------------------------- C18 ---------------------------------- *)
\* How many messages worker w has put on the queue so far.
Sent(w) ==
    Cardinality({i \in DOMAIN result_queue : result_queue[i].process_id = w})
    + Cardinality({i \in DOMAIN received : received[i].process_id = w})

\* C18: a worker process puts at most one message, and exactly one once it
\* is past its put or its failure handler; nothing reaches the driver except
\* through the queue: the shared mapping stays empty and the aggregate is
\* made of the received messages.
C18_ExactlyOneResultPerWorker ==
    mode = "process" =>
        /\ \A w \in DOMAIN workers :
              /\ Sent(w) <= 1
              /\ workers[w].pc \in {"put", "handled", "exited"} => Sent(w) = 1
        /\ results = EmptyMap
        /\ final_results = Aggregate(received)

(* ------------------------------- C21 ---------------------------------- *)
\* The workers that raised outside the per-file handling.
Failed == {w \in DOMAIN workers : workers[w].failed}

\* C21: in both searchers, when search_files returns without a timeout,
\* every worker that failed outside the per-file handling has been reported:
\* the error counter of the aggregate counts each of them.
C21_WorkerFailureReported ==
    (pc = "done" /\ ~timed_out) => error_count >= Cardinality(Failed)

(* ------------------------------- C22 ---------------------------------- *)
\* C22: in both searchers, when a worker has failed outside the per-file
\* handling and search_files returns without a timeout, nothing was raised
\* and every file of every other spawned worker's chunk is in the returned
\* mapping under the keywords its content matches.
C22_SiblingsUnaffected ==
    (pc = "done" /\ ~timed_out /\ Failed # {}) =>
        /\ raised = ""
        /\ \A i \in DOMAIN spawned :
              (spawned[i] \notin Failed /\ ~workers[spawned[i]].hung) =>
                  \A f \in Range(file_chunks[spawned[i]]) \ unreadable :
                      \A k \in Range(Keywords) :
                          FoundInContent(f)[k] => f \in Range(Lookup(returned, k))

(* ------------------------------- C23 ---------------------------------- *)
\* C23: when the process searcher's search_files returns after a receive
\* timeout, processed_files < total_files; when it returns without a timeout
\* and no worker failed, processed_files = total_files.
C23_TimeoutDistinguishable ==
    (mode = "process" /\ pc = "done") =>
        /\ timed_out => processed_files < total_files
        /\ (~timed_out /\ Failed = {}) => processed_files = total_files

\* A run of two workers returned after a timeout with one worker's files
\* counted.
C23_Witness ==
    /\ mode = "process"
    /\ pc = "done"
    /\ timed_out
    /\ processed_files >= 1
    /\ processed_files < total_files

(* ------------------------------- C24 ---------------------------------- *)
\* Where chunk i (0-based) starts in the list when the first r chunks have
\* base + 1 files and the others base.
ChunkStart(i, base, r) == i * base + Min(i, r)

\* C24: for N files and W > 0 workers, with base = N div W and R = N mod W,
\* there are W chunks, chunk i (0-based) is the run of base + 1 files (i < R)
\* or base files (otherwise) that follows chunk i - 1 in the list; when
\* N < W the chunks after the first N are empty, and a chunk is empty only
\* when W > N.
C24_ChunkSizes ==
    pc = "split" =>
        LET N == Len(file_paths)
            W == num_workers
            base == N \div W
            R == N % W
        IN  /\ Len(file_chunks) = W
            /\ \A i \in 0 .. W - 1 :
                  /\ Len(file_chunks[i + 1]) = base + (IF i < R THEN 1 ELSE 0)
                  /\ file_chunks[i + 1] =
                        SubSeq(file_paths, ChunkStart(i, base, R) + 1,
                               ChunkStart(i + 1, base, R))
            /\ N < W => \A i \in N .. W - 1 : file_chunks[i + 1] = <<>>
            /\ (\E i \in 1 .. W : file_chunks[i] = <<>>) => W > N

\* Fewer files than workers, at least two files: the trailing chunks are empty.
C24_Witness ==
    /\ pc = "split"
    /\ Len(file_paths) >= 2
    /\ Len(file_paths) < num_workers
    /\ file_chunks[num_workers] = <<>>
    /\ file_chunks[2] # <<>>

(* ------------------------------- C25 ---------------------------------- *)
\* str.upper(), character by character.
UpperChar(c) ==
    IF \E i \in DOMAIN LowerChars : LowerChars[i] = c
    THEN UpperChars[CHOOSE i \in DOMAIN LowerChars : LowerChars[i] = c]
    ELSE c

upper(s) == [i \in DOMAIN s |-> UpperChar(s[i])]

AllLetters(s) == \A i \in DOMAIN s : s[i] \in Range(UpperChars) \cup Range(LowerChars)

\* k occurs in t at offset i with no word character next to it on either side.
WholeWordAt(k, t, i) ==
    /\ SubSeq(t, i + 1, i + Len(k)) = k
    /\ i = 0 \/ ~IsWordChar(t[i])
    /\ i + Len(k) = Len(t) \/ ~IsWordChar(t[i + Len(k) + 1])

OccursWholeWord(k, t) == \E i \in 0 .. (Len(t) - Len(k)) : WholeWordAt(k, t, i)

\* C25: the matcher's answer does not change when the content or the keyword
\* is put in upper or in lower case, and for a keyword made of letters it is
\* true exactly when the keyword, letter case aside, occurs in the content
\* as a whole word: an occurrence inside a longer word does not count.
C25_CaseInsensitiveWholeWord ==
    pc = "matched" =>
        /\ is_found = KeywordFound(upper(keyword), text)
        /\ is_found = KeywordFound(keyword, upper(text))
        /\ is_found = KeywordFound(lower(keyword), lower(text))
        /\ AllLetters(keyword) => (is_found <=> OccursWholeWord(lower(keyword), lower(text)))

\* A two-letter keyword was found in a content that holds it in another
\* letter case, next to a separator.
C25_Witness ==
    /\ pc = "matched"
    /\ is_found
    /\ Len(keyword) = 2
    /\ AllLetters(keyword)
    /\ Len(text) = 3
    /\ ~re_search(keyword, text)

(* ------------------------------- C27 ---------------------------------- *)
\* C27: for every keyword, the matcher returns true exactly when the
\* lower-cased keyword occurs in the lower-cased content at a position where
\* it is preceded by a non-word character or the start of the string and
\* followed by a non-word character or the end of the string.
C27_WholeWordForEveryKeyword ==
    pc = "matched" => (is_found <=> OccursWholeWord(lower(keyword), lower(text)))

(* ------------------------------- C26 ---------------------------------- *)
\* The files of the chunks that were given to a worker.
SpawnedFiles == FilesOf(spawned)

\* C26: what the thread searcher returns, as sets, and its final counters
\* are determined by the listing, the unreadable files and the worker count
\* alone, whatever the order in which the threads finished and merged.
C26_MergeOrderIrrelevant ==
    (mode = "thread" /\ pc = "done") =>
        /\ AsSets(returned) =
              [k \in Range(Keywords) |->
                  {f \in SpawnedFiles \ unreadable : FoundInContent(f)[k]}]
        /\ processed_files = Cardinality(SpawnedFiles)
        /\ error_count = Cardinality(SpawnedFiles \cap unreadable)

\* The thread of the third file merged before the thread of the second one.
C26_Witness ==
    /\ mode = "thread"
    /\ pc = "done"
    /\ Lookup(returned, "data") = <<"c.txt", "b.txt">>
    /\ processed_files = 3

(* ------------------------------- C28 ---------------------------------- *)
\* C28 as stated: when the process searcher's search_files has returned, no
\* message a worker has put is left unmerged on the queue.
C28_NoResultDiscarded ==
    (mode = "process" /\ pc = "done") => result_queue = <<>>

\* C28 amended: when search_files has returned and no receive timed out,
\* every spawned worker's message has been merged and none is left on the
\* queue; after a timeout the messages not yet received at that moment are
\* the ones left out.
C28_NoResultDiscardedWithoutTimeout ==
    (mode = "process" /\ pc = "done") =>
        /\ ~timed_out =>
              /\ result_queue = <<>>
              /\ Range(Senders) = Range(spawned)
              /\ returned = Aggregate(received)
        /\ \A w \in DOMAIN workers :
              (Sent(w) > 0 /\ w \notin Range(Senders)) => timed_out

\* A run of two workers returned without a timeout, both messages merged.
C28_Witness ==
    /\ mode = "process"
    /\ pc = "done"
    /\ ~timed_out
    /\ Len(received) = 2
    /\ result_queue = <<>>
    /\ Len(Lookup(returned, "data")) >= 1

(* ------------------------------- C29 ---------------------------------- *)
\* C29: in both searchers, after a run without a timeout and without a
\* worker failing outside the per-file handling, processed_files equals
\* total_files, the length of the listing, however many of the files were
\* unreadable.
C29_ProcessedCountsAttempts ==
    (pc = "done" /\ ~timed_out /\ Failed = {}) =>
        /\ total_files = Len(file_paths)
        /\ processed_files = total_files

(* ------------------------------- C30 ---------------------------------- *)
\* C30: in both searchers every key of the returned mapping is a requested
\* keyword and its list is not empty: a keyword found in no file is absent.
C30_OnlyFoundKeywordsAreKeys ==
    pc = "done" =>
        \A k \in DOMAIN returned : k \in Range(Keywords) /\ returned[k] # <<>>

\* A run returned matches for "python" and nothing for "missing".
C30_Witness ==
    /\ pc = "done"
    /\ "python" \in DOMAIN returned
    /\ "missing" \in Range(Keywords)
    /\ "missing" \notin DOMAIN returned

====
